---- MODULE Spec2Model ----
(***************************************************************************)
(* A model of Data/hackathon_scraper/scraper.py: the concurrent project    *)
(* scraper (scrape_all_projects), the event-label extraction of            *)
(* scrape_project_details, the events-index extractor                      *)
(* (get_hackathon_events), the prize-page extractor                        *)
(* (scrape_partners_and_prizes) and the prize sink                         *)
(* (scrape_all_events_data, main).                                         *)
(*                                                                         *)
(* Text that the code inspects character by character (event labels,      *)
(* hrefs, prize titles) is a sequence of one-character strings.  Text     *)
(* that the code only copies is a TLA+ string.                             *)
(***************************************************************************)
EXTENDS Integers, Sequences, FiniteSets, TLC

VARIABLES
    \* ---- scrape_all_projects ----
    urls,                 \* the urls argument
    max_workers,          \* the max_workers argument
    current_year,         \* datetime.now().year
    pc,                   \* position of the calling (main) thread
    submitted,            \* how many of urls have been handed to executor.submit
    fstate,               \* per task: state of its Future
    phase,                \* per task: position of its worker inside scrape_with_progress
    result,               \* per task: the value scrape_with_progress returns
    pbar_n,               \* pbar.n, the progress counter
    all_project_details,  \* the result list of scrape_all_projects
    yielded,              \* futures as_completed has already yielded
    invoked,              \* per task: calls of scrape_project_details made for it
    errors,               \* per task: the error lines printed for it
    file,                 \* the output CSV of the stage that runs
    \* ---- event label of scrape_project_details ----
    created,              \* what find(text="Created At") and its find_next() give
    event,                \* event_name / event_year extracted from it
    \* ---- get_hackathon_events ----
    anchors,              \* soup.find_all('a', href=True), in document order
    next_anchor,          \* loop position
    all_links,            \* the list being built
    \* ---- scrape_partners_and_prizes / scrape_all_events_data / main ----
    stage,                \* which prize stage runs: "events_data" or "main"
    events_left,          \* events of events_df still to process
    last_page,            \* the prizes page the last call parsed
    last_prizes,          \* the prizes the last call returned
    all_prizes            \* all_prizes of scrape_all_events_data / prizes of main

projVars == <<urls, max_workers, current_year, pc, submitted, fstate, phase, result,
              pbar_n, all_project_details, yielded, invoked, errors>>
labelVars == <<created, event>>
indexVars == <<anchors, next_anchor, all_links>>
prizeVars == <<stage, events_left, last_page, last_prizes, all_prizes>>
vars == <<projVars, file, labelVars, indexVars, prizeVars>>

(***************************************************************************)
(* Bounds of the model.                                                    *)
(***************************************************************************)
MaxUrls == 3          \* longest urls list
MaxWorkers == 2       \* largest max_workers
MaxYearSpan == 5      \* current_year ranges over FirstYear .. FirstYear + MaxYearSpan
MaxLabelLen == 6      \* longest generated event label
MaxAnchors == 4       \* most anchors on the events index
MaxSections == 2      \* most sponsor sections on a prizes page
MaxBlocks == 2        \* most collapsible prize blocks in a section
MaxEvents == 3        \* most rows of the events CSV

FirstYear == 2020     \* range(2020, current_year + 1)

(***************************************************************************)
(* Text helpers: Python's str operations on sequences of characters.       *)
(***************************************************************************)
Digits == <<"0", "1", "2", "3", "4", "5", "6", "7", "8", "9">>

RECURSIVE Str(_)
\* str(n) for n >= 0
Str(n) == IF n < 10 THEN <<Digits[n + 1]>> ELSE Str(n \div 10) \o <<Digits[(n % 10) + 1]>>

\* t occurs in s at position i
OccursAt(s, t, i) ==
    /\ i + Len(t) - 1 <= Len(s)
    /\ \A k \in 1..Len(t) : s[i + k - 1] = t[k]

\* t in s
Contains(s, t) == \E i \in 1..(Len(s) - Len(t) + 1) : OccursAt(s, t, i)

\* s.startswith(t)
StartsWith(s, t) == OccursAt(s, t, 1)

RECURSIVE RemoveFrom(_, _, _)
RemoveFrom(s, t, i) ==
    IF i > Len(s) THEN <<>>
    ELSE IF OccursAt(s, t, i) THEN RemoveFrom(s, t, i + Len(t))
    ELSE <<s[i]>> \o RemoveFrom(s, t, i + 1)

\* s.replace(t, ''), t non-empty: every non-overlapping occurrence, leftmost first
Remove(s, t) == RemoveFrom(s, t, 1)

IsSpace(c) == c = " "

RECURSIVE LStrip(_)
LStrip(s) == IF s # <<>> /\ IsSpace(Head(s)) THEN LStrip(Tail(s)) ELSE s

RECURSIVE RStrip(_)
RStrip(s) == IF s # <<>> /\ IsSpace(s[Len(s)]) THEN RStrip(SubSeq(s, 1, Len(s) - 1)) ELSE s

\* s.strip()
Strip(s) == RStrip(LStrip(s))

\* the sentinel 'N/A' as characters
NA == <<"N", "/", "A">>

(***************************************************************************)
(* scrape_project_details, lines 69-87: event name and year.               *)
(***************************************************************************)
RECURSIVE YearLoopNoStrip(_, _, _)
\* the loop without the .strip() of line 86
YearLoopNoStrip(name, year, cy) ==
    IF year > cy THEN [event_name |-> name, event_year |-> cy]
    ELSE IF Contains(name, Str(year))
         THEN [event_name |-> Remove(name, Str(year)), event_year |-> year]
         ELSE YearLoopNoStrip(name, year + 1, cy)

RECURSIVE YearLoop(_, _, _)
\* for year in range(2020, current_year + 1): first year found wins (break)
YearLoop(name, year, cy) ==
    IF year > cy THEN [event_name |-> name, event_year |-> cy]
    ELSE IF Contains(name, Str(year))
         THEN [event_name |-> Strip(Remove(name, Str(year))), event_year |-> year]
         ELSE YearLoop(name, year + 1, cy)

\* event_div.get_text(strip=True) of a node holding one text
GetTextStrip(raw) == Strip(raw)

\* the branch under "if event_div:"
EventOfLabel(raw, cy) ==
    LET name == GetTextStrip(raw) IN
    IF ~ \E year \in FirstYear..cy : Contains(name, Str(year))
    THEN [event_name |-> name, event_year |-> cy]
    ELSE YearLoop(name, FirstYear, cy)

(***************************************************************************)
(* Python values of a record's fields.                                     *)
(***************************************************************************)
PyNone == [t |-> "none"]
PyStr(s) == [t |-> "str", v |-> s]
PyInt(n) == [t |-> "int", v |-> n]
PyList(l) == [t |-> "list", v |-> l]

\* bool(x) of a field value
TruthyValue(x) ==
    CASE x.t = "none" -> FALSE
      [] x.t = "str" -> x.v # ""
      [] x.t = "int" -> x.v # 0
      [] x.t = "list" -> x.v # <<>>

RECURSIVE Join(_)
\* ' '.join(parts)
Join(parts) ==
    IF parts = <<>> THEN ""
    ELSE IF Len(parts) = 1 THEN parts[1]
    ELSE parts[1] \o " " \o Join(Tail(parts))

(***************************************************************************)
(* Project pages.  A page says what the lookups of scrape_project_details  *)
(* find: h1 and p are the stripped texts (or NoText when the tag is        *)
(* absent); created and winner say whether the marker text exists and      *)
(* whether an element follows it.                                          *)
(***************************************************************************)
NoText == "<absent>"

Label2020 == <<"a", " ", "2", "0", "2", "0">>

PageFull ==
    [h1 |-> "Proj", p |-> "short",
     created |-> [kind |-> "node", text |-> Label2020],
     desc |-> [present |-> TRUE, ps |-> <<"d1", "d2">>],
     links |-> <<[demo |-> TRUE, source |-> FALSE, href |-> "demo"],
                 [demo |-> FALSE, source |-> TRUE, href |-> "src"]>>,
     tech |-> [present |-> TRUE, ps |-> <<"t1">>],
     winner |-> [kind |-> "node", h4 |-> <<"Prize">>]]

PageBare ==
    [h1 |-> NoText, p |-> "orphan",
     created |-> [kind |-> "absent", text |-> <<>>],
     desc |-> [present |-> FALSE, ps |-> <<>>],
     links |-> <<>>,
     tech |-> [present |-> FALSE, ps |-> <<>>],
     winner |-> [kind |-> "absent", h4 |-> <<>>]]

PageEmptyTexts ==
    [h1 |-> "", p |-> "",
     created |-> [kind |-> "nonext", text |-> <<>>],
     desc |-> [present |-> TRUE, ps |-> <<>>],
     links |-> <<[demo |-> TRUE, source |-> TRUE, href |-> ""]>>,
     tech |-> [present |-> TRUE, ps |-> <<>>],
     winner |-> [kind |-> "node", h4 |-> <<>>]]

PageWinnerLast ==
    [PageFull EXCEPT !.winner = [kind |-> "nonext", h4 |-> <<>>]]

Pages == {PageFull, PageBare, PageEmptyTexts, PageWinnerLast}

Fields == {"project_url", "project_name", "event_name", "event_year",
           "short_description", "full_description", "demo_url",
           "source_code_url", "tech_stack", "prizes"}

(***************************************************************************)
(* scrape_project_details, lines 66-149, on a fetched page.                *)
(***************************************************************************)
\* line 67
ProjectName(page) == IF page.h1 # NoText THEN PyStr(page.h1) ELSE PyStr("N/A")

\* lines 70-87
EventOf(page, cy) ==
    IF page.created.kind = "node"
    THEN EventOfLabel(page.created.text, cy)
    ELSE [event_name |-> NA, event_year |-> cy]

\* lines 90-95 without the fallback of line 96
ShortDescUnguarded(page) ==
    IF page.h1 # NoText /\ page.p # NoText THEN PyStr(page.p) ELSE PyNone

\* lines 90-96
ShortDesc(page) ==
    LET short_desc == IF page.h1 # NoText /\ page.p # NoText THEN PyStr(page.p) ELSE PyNone
    IN IF TruthyValue(short_desc) THEN short_desc ELSE PyStr("N/A")

\* lines 99-108 and 120-129: the paragraphs after a section marker
SectionText(sec) ==
    IF sec.present /\ sec.ps # <<>> THEN PyStr(Join(sec.ps)) ELSE PyStr("N/A")

RECURSIVE LinkLoop(_, _, _)
\* lines 113-117: the last matching anchor wins, "Live Demo" before "Source Code"
LinkLoop(links, demo_url, source_code_url) ==
    IF links = <<>> THEN [demo_url |-> demo_url, source_code_url |-> source_code_url]
    ELSE IF Head(links).demo THEN LinkLoop(Tail(links), Head(links).href, source_code_url)
    ELSE IF Head(links).source THEN LinkLoop(Tail(links), demo_url, Head(links).href)
    ELSE LinkLoop(Tail(links), demo_url, source_code_url)

\* line 135: prizes_section.find_next() is None
RaisesAttributeError(page) == page.winner.kind = "nonext"

\* lines 132-136 and 148
Prizes(page) ==
    IF page.winner.kind = "node" /\ page.winner.h4 # <<>>
    THEN PyList(page.winner.h4)
    ELSE PyStr("N/A")

\* lines 138-149: the dict returned
ProjectDict(url, page, cy) ==
    LET ev == EventOf(page, cy)
        ln == LinkLoop(page.links, "N/A", "N/A")
    IN [project_url |-> PyStr(url),
        project_name |-> ProjectName(page),
        event_name |-> PyStr(ev.event_name),
        event_year |-> PyInt(ev.event_year),
        short_description |-> ShortDesc(page),
        full_description |-> SectionText(page.desc),
        demo_url |-> PyStr(ln.demo_url),
        source_code_url |-> PyStr(ln.source_code_url),
        tech_stack |-> SectionText(page.tech),
        prizes |-> Prizes(page)]

\* what scrape_with_progress hands back: a dict (possibly {}) or None
Dict(d) == [tag |-> "dict", d |-> d]
EmptyDict == Dict([k \in {} |-> PyNone])
None == [tag |-> "None"]
Unset == [tag |-> "unset"]

\* "if project_data:" (line 185)
Truthy(x) == x.tag = "dict" /\ DOMAIN x.d # {}

(***************************************************************************)
(* Values the variables of the other stages keep while one stage runs.     *)
(***************************************************************************)
IdleProj ==
    /\ urls = <<>> /\ max_workers = 1 /\ submitted = 0
    /\ fstate = <<>> /\ phase = <<>> /\ result = <<>> /\ pbar_n = 0
    /\ all_project_details = <<>> /\ yielded = {} /\ invoked = <<>> /\ errors = <<>>
NoEvent == [event_name |-> <<>>, event_year |-> 0]
IdleLabel == created = [kind |-> "absent", text |-> <<>>] /\ event = NoEvent
IdleIndex == anchors = <<>> /\ next_anchor = 0 /\ all_links = <<>>
IdlePage == last_page = <<>> /\ last_prizes = <<>>
IdleSink == stage = "idle" /\ events_left = 0 /\ all_prizes = <<>>

\* the output file before the run: absent, or holding an earlier run's rows
StaleRow == [tag |-> "row of an earlier run"]
NoFile == [exists |-> FALSE, rows |-> <<>>]
PriorFiles == {NoFile, [exists |-> TRUE, rows |-> <<StaleRow>>]}

(***************************************************************************)
(* scrape_all_projects, lines 157-215.                                     *)
(***************************************************************************)
Url(i) == "url" \o Digits[i + 1]
Tasks == 1..Len(urls)
Running == {i \in Tasks : fstate[i] = "running"}

InitProj ==
    /\ \E n \in 0..MaxUrls : urls = [i \in 1..n |-> Url(i)]
    /\ max_workers \in 1..MaxWorkers
    /\ current_year = FirstYear + MaxYearSpan
    /\ pc = "submit"
    /\ submitted = 0
    /\ fstate = [i \in Tasks |-> "unsubmitted"]
    /\ phase = [i \in Tasks |-> "none"]
    /\ result = [i \in Tasks |-> Unset]
    /\ pbar_n = 0
    /\ all_project_details = <<>>
    /\ yielded = {}
    /\ invoked = [i \in Tasks |-> 0]
    /\ errors = [i \in Tasks |-> <<>>]
    /\ file \in PriorFiles
    /\ IdleLabel /\ IdleIndex /\ IdlePage /\ IdleSink

others == <<labelVars, indexVars, prizeVars>>

\* line 178: executor.submit for the next url
Submit ==
    /\ pc = "submit"
    /\ submitted < Len(urls)
    /\ submitted' = submitted + 1
    /\ fstate' = [fstate EXCEPT ![submitted + 1] = "pending"]
    /\ UNCHANGED <<urls, max_workers, current_year, pc, phase, result, pbar_n,
                   all_project_details, yielded, invoked, errors, file, others>>

\* line 181: every url submitted, as_completed starts
BeginCollect ==
    /\ pc = "submit"
    /\ submitted = Len(urls)
    /\ pc' = "collect"
    /\ UNCHANGED <<urls, max_workers, current_year, submitted, fstate, phase, result,
                   pbar_n, all_project_details, yielded, invoked, errors, file, others>>

\* a pool that starts a thread for every work item
WorkerFreeUnbounded == TRUE
\* ThreadPoolExecutor(max_workers): a work item starts only on a free worker
WorkerFree == Cardinality(Running) < max_workers

\* a worker takes the oldest queued work item and enters scrape_with_progress,
\* which calls scrape_project_details (line 167)
StartTask(i) ==
    /\ fstate[i] = "pending"
    /\ \A j \in Tasks : fstate[j] = "pending" => i <= j
    /\ WorkerFree
    /\ fstate' = [fstate EXCEPT ![i] = "running"]
    /\ phase' = [phase EXCEPT ![i] = "fetch"]
    /\ invoked' = [invoked EXCEPT ![i] = @ + 1]
    /\ UNCHANGED <<urls, max_workers, current_year, pc, submitted, result, pbar_n,
                   all_project_details, yielded, errors, file, others>>

FetchOutcomes == {"ok", "RequestException", "Exception"}

\* the same, with a failed request handing back a record that holds only the url
FetchPartial(i) ==
    /\ phase[i] = "fetch"
    /\ \E outcome \in FetchOutcomes :
         CASE outcome = "ok" ->
                /\ phase' = [phase EXCEPT ![i] = "extract"]
                /\ UNCHANGED <<result, errors>>
           [] outcome = "RequestException" ->      \* lines 150-152
                /\ phase' = [phase EXCEPT ![i] = "update"]
                /\ errors' = [errors EXCEPT ![i] = Append(@, "Error scraping project")]
                /\ result' = [result EXCEPT ![i] = Dict([project_url |-> PyStr(urls[i])])]
           [] outcome = "Exception" ->             \* lines 170-173
                /\ phase' = [phase EXCEPT ![i] = "update"]
                /\ errors' = [errors EXCEPT ![i] = Append(@, "Error scraping")]
                /\ result' = [result EXCEPT ![i] = None]
    /\ UNCHANGED <<urls, max_workers, current_year, pc, submitted, fstate, pbar_n,
                   all_project_details, yielded, invoked, file, others>>

\* lines 61-63: requests.get, raise_for_status, BeautifulSoup
Fetch(i) ==
    /\ phase[i] = "fetch"
    /\ \E outcome \in FetchOutcomes :
         CASE outcome = "ok" ->
                /\ phase' = [phase EXCEPT ![i] = "extract"]
                /\ UNCHANGED <<result, errors>>
           [] outcome = "RequestException" ->      \* lines 150-152
                /\ phase' = [phase EXCEPT ![i] = "update"]
                /\ errors' = [errors EXCEPT ![i] = Append(@, "Error scraping project")]
                /\ result' = [result EXCEPT ![i] = EmptyDict]
           [] outcome = "Exception" ->             \* lines 170-173
                /\ phase' = [phase EXCEPT ![i] = "update"]
                /\ errors' = [errors EXCEPT ![i] = Append(@, "Error scraping")]
                /\ result' = [result EXCEPT ![i] = None]
    /\ UNCHANGED <<urls, max_workers, current_year, pc, submitted, fstate, pbar_n,
                   all_project_details, yielded, invoked, file, others>>

\* lines 64-149, and 153-155 when a lookup raises AttributeError
Extract(i) ==
    /\ phase[i] = "extract"
    /\ \E page \in Pages :
         IF RaisesAttributeError(page)
         THEN /\ errors' = [errors EXCEPT ![i] = Append(@, "Error parsing project details")]
              /\ result' = [result EXCEPT ![i] = EmptyDict]
         ELSE /\ result' = [result EXCEPT ![i] = Dict(ProjectDict(urls[i], page, current_year))]
              /\ UNCHANGED errors
    /\ phase' = [phase EXCEPT ![i] = "update"]
    /\ UNCHANGED <<urls, max_workers, current_year, pc, submitted, fstate, pbar_n,
                   all_project_details, yielded, invoked, file, others>>

\* the same, with the progress bar updated on both paths of the try
FinishTwice(i) ==
    /\ phase[i] = "update"
    /\ pbar_n' = pbar_n + 2
    /\ phase' = [phase EXCEPT ![i] = "done"]
    /\ fstate' = [fstate EXCEPT ![i] = "finished"]
    /\ UNCHANGED <<urls, max_workers, current_year, pc, submitted, result,
                   all_project_details, yielded, invoked, errors, file, others>>

\* the same, with the worker appending its record to the shared list itself
FinishAppending(i) ==
    /\ phase[i] = "update"
    /\ pbar_n' = pbar_n + 1
    /\ phase' = [phase EXCEPT ![i] = "done"]
    /\ fstate' = [fstate EXCEPT ![i] = "finished"]
    /\ all_project_details' = IF Truthy(result[i]) THEN Append(all_project_details, result[i])
                              ELSE all_project_details
    /\ UNCHANGED <<urls, max_workers, current_year, pc, submitted, result,
                   yielded, invoked, errors, file, others>>

\* lines 168-169 / 172-173: pbar.update(1), return: the future is finished
Finish(i) ==
    /\ phase[i] = "update"
    /\ pbar_n' = pbar_n + 1
    /\ phase' = [phase EXCEPT ![i] = "done"]
    /\ fstate' = [fstate EXCEPT ![i] = "finished"]
    /\ UNCHANGED <<urls, max_workers, current_year, pc, submitted, result,
                   all_project_details, yielded, invoked, errors, file, others>>

\* every result kept, empty or not
KeepAll(project_data) == TRUE
\* line 185
Keep(project_data) == Truthy(project_data)

\* lines 181-186: as_completed yields a finished future, its result is kept or dropped
Collect(i) ==
    /\ pc = "collect"
    /\ fstate[i] = "finished"
    /\ i \notin yielded
    /\ yielded' = yielded \cup {i}
    /\ all_project_details' = IF Keep(result[i]) THEN Append(all_project_details, result[i])
                              ELSE all_project_details
    /\ UNCHANGED <<urls, max_workers, current_year, pc, submitted, fstate, phase, result,
                   pbar_n, invoked, errors, file, others>>

\* lines 188-190: as_completed is exhausted, the executor shuts down, pbar.close()
EndCollect ==
    /\ pc = "collect"
    /\ yielded = Tasks
    /\ pc' = "save"
    /\ UNCHANGED <<urls, max_workers, current_year, submitted, fstate, phase, result,
                   pbar_n, all_project_details, yielded, invoked, errors, file, others>>

\* lines 193-215: the file is removed if it exists and written anew with the table
Save ==
    /\ pc = "save"
    /\ file' = [exists |-> TRUE, rows |-> all_project_details]
    /\ pc' = "returned"
    /\ UNCHANGED <<urls, max_workers, current_year, submitted, fstate, phase, result,
                   pbar_n, all_project_details, yielded, invoked, errors, others>>

Worker(i) == StartTask(i) \/ Fetch(i) \/ Extract(i) \/ Finish(i)
Main == Submit \/ BeginCollect \/ (\E i \in Tasks : Collect(i)) \/ EndCollect \/ Save

Next == Main \/ (\E i \in Tasks : Worker(i))

Spec == InitProj /\ [][Next]_vars

\* every thread that can run is eventually scheduled
FairSpec == Spec /\ WF_vars(Main) /\ \A i \in 1..MaxUrls : WF_vars(i \in Tasks /\ Worker(i))

(***************************************************************************)
(* Properties of scrape_all_projects.                                      *)
(***************************************************************************)
Returned == pc = "returned"

\* the run returns, given that every thread keeps being scheduled
RunReturns == <>Returned

RECURSIVE CountRows(_, _)
\* rows of the table that carry the given project_url
CountRows(rows, url) ==
    IF rows = <<>> THEN 0
    ELSE (IF /\ Head(rows).tag = "dict"
             /\ "project_url" \in DOMAIN Head(rows).d
             /\ Head(rows).d.project_url = PyStr(url)
          THEN 1 ELSE 0) + CountRows(Tail(rows), url)

Records(i) == CountRows(all_project_details, urls[i])

Printed(i, line) == \E k \in 1..Len(errors[i]) : errors[i][k] = line
FetchFailed(i) == Printed(i, "Error scraping project") \/ Printed(i, "Error scraping")
ExtractFailed(i) == Printed(i, "Error parsing project details")

\* a running worker can take its next step: Fetch, Extract and Finish wait for
\* nothing but the worker's own position
CanStep(i) == fstate[i] = "running" /\ phase[i] \in {"fetch", "extract", "update"}

\* some thread can take a step, unless the run has returned
NotStuck ==
    \/ Returned
    \/ \E i \in Tasks : CanStep(i)
    \/ ENABLED Main
    \/ \E i \in Tasks : ENABLED StartTask(i)

\* C1: with 1 <= max_workers < N, the run never gets stuck before it returns and
\* returns with all N tasks finished; scrape_project_details is called at most once
\* per submitted url at any time and exactly once when the run has returned; the
\* progress counter never exceeds N.
C1_AllTasksOnce ==
    (max_workers < Len(urls)) =>
        /\ pbar_n <= Len(urls)
        /\ \A i \in Tasks : invoked[i] <= 1
        /\ NotStuck
        /\ Returned => /\ \A i \in Tasks : fstate[i] = "finished" /\ invoked[i] = 1
                       /\ pbar_n = Len(urls)

C1_Witness ==
    /\ Returned /\ Len(urls) = 3 /\ max_workers = 2
    /\ \A i \in Tasks : invoked[i] = 1

RowComplete(row) ==
    /\ row.tag = "dict"
    /\ DOMAIN row.d = Fields
    /\ \A f \in Fields : row.d[f].t # "none"
    /\ row.d.event_year.t = "int"
    /\ row.d.prizes = PyStr("N/A") \/ (row.d.prizes.t = "list" /\ row.d.prizes.v # <<>>)
    /\ \A f \in Fields \ {"event_year", "prizes"} : row.d[f].t = "str"
    /\ row.d.short_description.v # ""

C4_RowsComplete ==
    \A k \in 1..Len(all_project_details) : RowComplete(all_project_details[k])

C4_Witness ==
    /\ Returned
    /\ \E k \in 1..Len(all_project_details) :
         /\ all_project_details[k].d.project_name = PyStr("N/A")
         /\ all_project_details[k].d.short_description = PyStr("N/A")
         /\ all_project_details[k].d.event_year = PyInt(current_year)
    /\ \E k \in 1..Len(all_project_details) :
         all_project_details[k].d.project_name = PyStr("")
    /\ \E i \in Tasks : FetchFailed(i)

\* C5: the number of tasks in flight never exceeds max_workers.
C5_BoundedInFlight == Cardinality(Running) <= max_workers

C5_Witness ==
    /\ Cardinality(Running) = max_workers
    /\ max_workers = 2
    /\ \E i \in Tasks : fstate[i] = "pending"

\* C6: a task whose future has been collected has exactly one outcome, a record in
\* the table and no error line, or one error line and no record; a running task can
\* always take its next step whatever happened to the others, and the run is never
\* stuck before it returns, when every task has been collected.
C6_OneOutcome ==
    /\ \A i \in Tasks :
         /\ i \in yielded =>
              \/ Records(i) = 1 /\ errors[i] = <<>>
              \/ Records(i) = 0 /\ Len(errors[i]) = 1
         /\ i \notin yielded => Records(i) = 0
         /\ fstate[i] = "running" => CanStep(i)
    /\ Len(all_project_details) = Cardinality({i \in yielded : errors[i] = <<>>})
    /\ NotStuck
    /\ Returned => yielded = Tasks

C6_Witness ==
    /\ Returned
    /\ \E i, j \in Tasks :
         /\ Printed(i, "Error scraping") /\ Records(i) = 0
         /\ Records(j) = 1 /\ errors[j] = <<>>

\* C10: the table changes only by the collecting thread appending the non-empty
\* result of one finished future it has just been handed, no worker moving in that
\* step; when the run returns the table has as many rows as tasks returned a
\* non-empty record.
C10_SingleWriter ==
    [][/\ all_project_details' # all_project_details =>
            \E i \in Tasks :
               /\ pc = "collect" /\ fstate[i] = "finished" /\ i \notin yielded
               /\ yielded' = yielded \cup {i}
               /\ Truthy(result[i])
               /\ all_project_details' = Append(all_project_details, result[i])
               /\ UNCHANGED <<fstate, phase, result, pbar_n>>
       /\ pc' = "returned" =>
            Len(all_project_details') = Cardinality({i \in Tasks : Truthy(result'[i])})
      ]_vars

C10_Witness ==
    /\ pc = "collect"
    /\ Len(all_project_details) >= 1
    /\ Cardinality(Running) = 2

(***************************************************************************)
(* The event label, lines 69-87, over generated labels.                    *)
(***************************************************************************)
LabelChars == {"a", " ", "2", "0"}

RECURSIVE TextsUpTo(_)
\* every text over LabelChars of at most n characters
TextsUpTo(n) ==
    IF n = 0 THEN {<<>>}
    ELSE LET shorter == TextsUpTo(n - 1)
         IN shorter \cup {Append(t, c) : t \in shorter, c \in LabelChars}

SanFrancisco2024 ==
    <<"S", "a", "n", " ", "F", "r", "a", "n", "c", "i", "s", "c", "o", " ", "2", "0", "2", "4">>
SanFrancisco ==
    <<"S", "a", "n", " ", "F", "r", "a", "n", "c", "i", "s", "c", "o">>

\* "Created At" absent, present with nothing after it, or followed by a node whose
\* text has at most n generated characters or is the example label
CreatedNodes(n) ==
    {[kind |-> "absent", text |-> <<>>], [kind |-> "nonext", text |-> <<>>]}
    \cup {[kind |-> "node", text |-> t] : t \in TextsUpTo(n) \cup {SanFrancisco2024}}

InitLabel ==
    /\ created \in CreatedNodes(MaxLabelLen)
    /\ current_year \in FirstYear..(FirstYear + MaxYearSpan)
    /\ event = NoEvent
    /\ pc = "label"
    /\ IdleProj /\ file = NoFile /\ IdleIndex /\ IdlePage /\ IdleSink

\* lines 70-87 on the page's "Created At" node
ExtractEvent ==
    /\ pc = "label"
    /\ event' = EventOf([created |-> created], current_year)
    /\ pc' = "label_done"
    /\ UNCHANGED <<urls, max_workers, current_year, submitted, fstate, phase, result,
                   pbar_n, all_project_details, yielded, invoked, errors, file,
                   created, indexVars, prizeVars>>

NextLabel == ExtractEvent

SpecLabel == InitLabel /\ [][NextLabel]_vars

\* C7: for a label (the stripped text of the node after "Created At") and a current
\* year >= 2020, event_year lies in 2020..current_year; if a year of that range
\* occurs in the label, event_year is such a year and event_name is the label with
\* that token removed and the result stripped; otherwise event_year is the current
\* year and event_name is the label.  "San Francisco 2024" with current year 2025
\* gives "San Francisco", 2024.
C7_EventYear ==
    (pc = "label_done" /\ created.kind = "node") =>
        LET label == Strip(created.text)
            found == {y \in FirstYear..current_year : Contains(label, Str(y))}
        IN /\ event.event_year \in FirstYear..current_year
           /\ found # {} =>
                /\ event.event_year \in found
                /\ event.event_name = Strip(Remove(label, Str(event.event_year)))
                /\ Len(event.event_name) <= Len(label) - 4
                /\ event.event_name # <<>> =>
                     event.event_name[1] # " " /\ event.event_name[Len(event.event_name)] # " "
           /\ found = {} => event.event_year = current_year /\ event.event_name = label
           /\ (created.text = SanFrancisco2024 /\ current_year = 2025) =>
                event = [event_name |-> SanFrancisco, event_year |-> 2024]

C7_Witness ==
    /\ pc = "label_done"
    /\ created.text = SanFrancisco2024
    /\ current_year = 2025
    /\ event.event_year = 2024

(***************************************************************************)
(* get_hackathon_events, lines 217-244.                                    *)
(***************************************************************************)
EventPrefix == <<"/", "e", "v", "e", "n", "t", "s", "/">>
\* "https://ethglobal.com", kept as one piece: the code only prepends it
BaseUrl == <<"https://ethglobal.com">>

Hrefs ==
    {EventPrefix \o <<"a">>, EventPrefix \o <<"b">>, EventPrefix,
     <<"/", "e", "v", "e", "n", "t", "s">>,
     <<"/", "s", "h", "o", "w", "c", "a", "s", "e", "/", "a">>,
     <<"x">> \o EventPrefix \o <<"a">>}

RECURSIVE SeqsUpTo(_, _)
\* every sequence over S of at most n elements
SeqsUpTo(S, n) ==
    IF n = 0 THEN {<<>>}
    ELSE LET shorter == SeqsUpTo(S, n - 1)
         IN shorter \cup {Append(t, x) : t \in shorter, x \in S}

InitIndex ==
    /\ anchors \in SeqsUpTo(Hrefs, MaxAnchors)
    /\ next_anchor = 1
    /\ all_links = <<>>
    /\ pc = "index_fetch"
    /\ current_year = FirstYear
    /\ IdleProj /\ file = NoFile /\ IdleLabel /\ IdlePage /\ IdleSink

indexOthers == <<urls, max_workers, current_year, submitted, fstate, phase, result,
                 pbar_n, all_project_details, yielded, invoked, errors, file,
                 labelVars, prizeVars>>

\* lines 222-227, and 242-244 when the request fails
FetchIndex ==
    /\ pc = "index_fetch"
    /\ \E ok \in BOOLEAN : pc' = IF ok THEN "index_loop" ELSE "index_failed"
    /\ UNCHANGED <<anchors, next_anchor, all_links, indexOthers>>

\* no duplicate check
SeenNever(full_url, links) == FALSE
\* line 233: full_url in all_links
Seen(full_url, links) == \E k \in 1..Len(links) : links[k] = full_url

\* lines 228-234: one iteration of the loop over the anchors
ProcessAnchor ==
    /\ pc = "index_loop"
    /\ next_anchor <= Len(anchors)
    /\ LET href == anchors[next_anchor]
           full_url == BaseUrl \o href
       IN all_links' = IF StartsWith(href, EventPrefix) /\ ~Seen(full_url, all_links)
                       THEN Append(all_links, full_url)
                       ELSE all_links
    /\ next_anchor' = next_anchor + 1
    /\ UNCHANGED <<pc, anchors, indexOthers>>

\* lines 236-240
ReturnLinks ==
    /\ pc = "index_loop"
    /\ next_anchor > Len(anchors)
    /\ pc' = "index_done"
    /\ UNCHANGED <<anchors, next_anchor, all_links, indexOthers>>

NextIndex == FetchIndex \/ ProcessAnchor \/ ReturnLinks

SpecIndex == InitIndex /\ [][NextIndex]_vars

Qualifying == {k \in 1..Len(anchors) : StartsWith(anchors[k], EventPrefix)}
FirstAnchorOf(full_url) ==
    CHOOSE k \in Qualifying :
        /\ BaseUrl \o anchors[k] = full_url
        /\ \A j \in Qualifying : BaseUrl \o anchors[j] = full_url => k <= j

\* C8: the list returned holds exactly the urls of the anchors whose href starts
\* with "/events/", each once, in the order of their first occurrence.
C8_OrderedDedup ==
    pc = "index_done" =>
        /\ \A i, j \in 1..Len(all_links) : i # j => all_links[i] # all_links[j]
        /\ \A i \in 1..Len(all_links) : \E k \in Qualifying : all_links[i] = BaseUrl \o anchors[k]
        /\ \A k \in Qualifying :
             Cardinality({i \in 1..Len(all_links) : all_links[i] = BaseUrl \o anchors[k]}) = 1
        /\ \A i, j \in 1..Len(all_links) :
             i < j => FirstAnchorOf(all_links[i]) < FirstAnchorOf(all_links[j])

C8_Witness ==
    /\ pc = "index_done"
    /\ Len(anchors) = 4
    /\ anchors[1] = anchors[3] /\ anchors[1] = EventPrefix \o <<"b">>
    /\ anchors[2] = EventPrefix \o <<"a">>
    /\ ~StartsWith(anchors[4], EventPrefix)
    /\ Len(all_links) = 2

(***************************************************************************)
(* scrape_partners_and_prizes, lines 297-381.                              *)
(*                                                                         *)
(* A prizes page is the sequence of its 'border-b-2' sections.  A section  *)
(* says whether it has an h2 and a 'text-2xl' total and lists its open     *)
(* collapsible blocks; a block says which of its nodes exist and lists the *)
(* 'flex gap-x-1' places of its breakdown.  The text of a node is made     *)
(* from its position, so that a record names the block it came from.       *)
(***************************************************************************)
PlaceOk == [info |-> TRUE, name |-> TRUE, amt |-> TRUE]
PlaceNoAmount == [info |-> TRUE, name |-> TRUE, amt |-> FALSE]
PlaceNoInfo == [info |-> FALSE, name |-> FALSE, amt |-> FALSE]
PlaceNoName == [info |-> TRUE, name |-> FALSE, amt |-> TRUE]

BlockPlain ==
    [title |-> TRUE, amount |-> TRUE, group |-> FALSE, desc |-> FALSE,
     breakdown |-> FALSE, places |-> <<>>]
BlockFull ==
    [title |-> TRUE, amount |-> TRUE, group |-> TRUE, desc |-> TRUE,
     breakdown |-> TRUE, places |-> <<PlaceOk, PlaceNoInfo, PlaceNoAmount>>]
BlockNoTitle == [BlockFull EXCEPT !.title = FALSE]
BlockNoAmount == [BlockPlain EXCEPT !.amount = FALSE]
BlockBadPlace == [BlockFull EXCEPT !.places = <<PlaceOk, PlaceNoName>>]

BlockShapes == {BlockPlain, BlockFull, BlockNoTitle, BlockNoAmount, BlockBadPlace}

\* the sections of at most nb blocks
Sections(nb) ==
    {[h2 |-> h, total |-> t, blocks |-> bs] :
        h \in BOOLEAN, t \in BOOLEAN, bs \in SeqsUpTo(BlockShapes, nb)}

\* the pages of at most ns sections of at most nb blocks
PrizePages(ns, nb) == SeqsUpTo(Sections(nb), ns)

\* node texts
PartnerText(s) == "Partner" \o Digits[s + 1]
TotalText(s) == "$" \o Digits[s + 1] \o "000"
Trophy == "<U+1F3C6>"
TitleText(b) == <<Trophy, " ", "T", Digits[b + 1], " ">>
AmountText(b) == "$" \o Digits[b + 1] \o "00"
PlaceName(k) == "Place" \o Digits[k + 1]

EmojiFirst == 127744   \* 0x1F300
EmojiLast == 129535    \* 0x1F9FF
\* ord(c) of the characters a title is made of
Ord(c) == CASE c = Trophy -> 127942 [] c = " " -> 32 [] OTHER -> 65

RECURSIVE RemoveEmoji(_)
\* ''.join(c for c in title if not (0x1F300 <= ord(c) <= 0x1F9FF))
RemoveEmoji(t) ==
    IF t = <<>> THEN <<>>
    ELSE IF EmojiFirst <= Ord(Head(t)) /\ Ord(Head(t)) <= EmojiLast
         THEN RemoveEmoji(Tail(t))
         ELSE <<Head(t)>> \o RemoveEmoji(Tail(t))

\* lines 337-339
CleanTitle(text) == Strip(RemoveEmoji(Strip(text)))

RECURSIVE PlaceLoop(_, _, _)
\* lines 354-360: the entries of the breakdown, or the AttributeError of a place
\* whose 'w-fit' node is missing
PlaceLoop(places, k, breakdowns) ==
    IF k > Len(places) THEN [raised |-> FALSE, breakdowns |-> breakdowns]
    ELSE IF ~places[k].info THEN PlaceLoop(places, k + 1, breakdowns)
    ELSE IF ~places[k].name THEN [raised |-> TRUE, breakdowns |-> breakdowns]
    ELSE PlaceLoop(places, k + 1,
                   Append(breakdowns,
                          PlaceName(k) \o ": " \o (IF places[k].amt THEN "$" ELSE "N/A")))

RECURSIVE JoinBar(_)
\* ' | '.join(breakdowns)
JoinBar(parts) ==
    IF parts = <<>> THEN ""
    ELSE IF Len(parts) = 1 THEN parts[1]
    ELSE parts[1] \o " | " \o JoinBar(Tail(parts))

\* lines 362-370
PrizeRecord(event_url, s, b, block, breakdowns) ==
    [event_url |-> event_url,
     partner_name |-> PartnerText(s),
     total_partner_amount |-> TotalText(s),
     prize_title |-> CleanTitle(TitleText(b)),
     prize_amount |-> AmountText(b),
     description |-> IF block.group /\ block.desc THEN "description" ELSE "N/A",
     prize_breakdown |-> IF breakdowns # <<>> THEN JoinBar(breakdowns) ELSE "N/A"]

RECURSIVE BlockLoop(_, _, _, _, _)
\* lines 326-370: the loop over the blocks of section s, appending to prizes; an
\* exception leaves the loop with what was appended before it
BlockLoop(event_url, s, blocks, b, prizes) ==
    IF b > Len(blocks) THEN [raised |-> FALSE, prizes |-> prizes]
    ELSE IF ~blocks[b].title \/ ~blocks[b].amount
         THEN BlockLoop(event_url, s, blocks, b + 1, prizes)
    ELSE LET pl == IF blocks[b].breakdown THEN PlaceLoop(blocks[b].places, 1, <<>>)
                   ELSE [raised |-> FALSE, breakdowns |-> <<>>]
         IN IF pl.raised THEN [raised |-> TRUE, prizes |-> prizes]
            ELSE BlockLoop(event_url, s, blocks, b + 1,
                           Append(prizes, PrizeRecord(event_url, s, b, blocks[b], pl.breakdowns)))

RECURSIVE SectionLoop(_, _, _, _)
\* lines 313-374: the loop over the sections, each in its own try
SectionLoop(event_url, sections, s, prizes) ==
    IF s > Len(sections) THEN prizes
    ELSE IF ~sections[s].h2 THEN SectionLoop(event_url, sections, s + 1, prizes)
    ELSE IF ~sections[s].total THEN SectionLoop(event_url, sections, s + 1, prizes)
    ELSE SectionLoop(event_url, sections, s + 1,
                     BlockLoop(event_url, s, sections[s].blocks, 1, prizes).prizes)

\* the prizes of the tuple returned; the request failing gives [] (lines 379-381)
ScrapePartnersAndPrizes(event_url, ok, page) ==
    IF ok THEN SectionLoop(event_url, page, 1, <<>>) ELSE <<>>

pageOthers == <<urls, max_workers, current_year, submitted, fstate, phase, result,
                pbar_n, all_project_details, yielded, invoked, errors, file,
                labelVars, indexVars, stage, events_left, all_prizes>>

TestUrl == "https://ethglobal.com/events/sanfrancisco2024"

InitPage ==
    /\ last_page \in PrizePages(MaxSections, MaxBlocks)
    /\ last_prizes = <<>>
    /\ pc = "page"
    /\ current_year = FirstYear
    /\ IdleProj /\ file = NoFile /\ IdleLabel /\ IdleIndex /\ IdleSink

\* one call of scrape_partners_and_prizes
ScrapePage ==
    /\ pc = "page"
    /\ \E ok \in BOOLEAN :
         /\ last_prizes' = ScrapePartnersAndPrizes(TestUrl, ok, last_page)
         /\ pc' = IF ok THEN "page_done" ELSE "page_failed"
    /\ UNCHANGED <<last_page, pageOthers>>

NextPage == ScrapePage

SpecPage == InitPage /\ [][NextPage]_vars

\* every node the block's record is read from exists
BlockWellFormed(block) ==
    /\ block.title /\ block.amount
    /\ block.breakdown => \A k \in 1..Len(block.places) :
                             block.places[k].info => block.places[k].name
SectionWellFormed(section) == section.h2 /\ section.total

RecordsOf(s, b) ==
    {k \in 1..Len(last_prizes) :
        /\ last_prizes[k].partner_name = PartnerText(s)
        /\ last_prizes[k].prize_title = CleanTitle(TitleText(b))}

\* C9: on a page that was fetched, every block whose own nodes and whose section's
\* nodes are all present yields exactly one record, whatever is missing elsewhere,
\* and every other block yields none.
C9_DefectIsLocal ==
    pc = "page_done" =>
        \A s \in 1..Len(last_page) : \A b \in 1..Len(last_page[s].blocks) :
            Cardinality(RecordsOf(s, b)) =
                (IF SectionWellFormed(last_page[s]) /\ BlockWellFormed(last_page[s].blocks[b])
                 THEN 1 ELSE 0)

\* what does hold: a block yields its record exactly when its section's nodes are
\* present, its own are, and no earlier block of the section misses a placement name
NoEarlierRaise(blocks, b) ==
    \A a \in 1..(b - 1) : (blocks[a].title /\ blocks[a].amount) => BlockWellFormed(blocks[a])

PrizesAsCoded ==
    pc = "page_done" =>
        \A s \in 1..Len(last_page) : \A b \in 1..Len(last_page[s].blocks) :
            Cardinality(RecordsOf(s, b)) =
                (IF /\ SectionWellFormed(last_page[s])
                    /\ BlockWellFormed(last_page[s].blocks[b])
                    /\ NoEarlierRaise(last_page[s].blocks, b)
                 THEN 1 ELSE 0)

(***************************************************************************)
(* The prize sinks: scrape_all_events_data (lines 383-423) and main (lines *)
(* 425-444).                                                               *)
(***************************************************************************)
GoodSection == [h2 |-> TRUE, total |-> TRUE, blocks |-> <<BlockFull>>]
SamplePages ==
    {<<>>,
     <<GoodSection>>,
     <<GoodSection, [h2 |-> FALSE, total |-> TRUE, blocks |-> <<BlockPlain>>], GoodSection>>,
     <<[h2 |-> TRUE, total |-> TRUE, blocks |-> <<BlockBadPlace, BlockPlain>>]>>}

EventUrl(k) == "https://ethglobal.com/events/e" \o Digits[k + 1]

sinkOthers == <<urls, max_workers, current_year, submitted, fstate, phase, result,
                pbar_n, all_project_details, yielded, invoked, errors,
                labelVars, indexVars>>

InitSink ==
    /\ stage \in {"events_data", "main"}
    /\ events_left \in 0..MaxEvents
    /\ stage = "main" => events_left = 1
    /\ all_prizes = <<>>
    /\ last_page = <<>> /\ last_prizes = <<>>
    /\ file \in PriorFiles
    /\ pc = "sink_loop"
    /\ current_year = FirstYear
    /\ IdleProj /\ IdleLabel /\ IdleIndex

\* lines 392-401: one event of events_df
ScrapeEvent ==
    /\ pc = "sink_loop" /\ stage = "events_data"
    /\ events_left > 0
    /\ \E ok \in BOOLEAN, page \in SamplePages :
         LET prizes == ScrapePartnersAndPrizes(EventUrl(events_left), ok, page)
         IN /\ last_page' = page
            /\ last_prizes' = prizes
            /\ all_prizes' = IF prizes # <<>> THEN all_prizes \o prizes ELSE all_prizes
    /\ events_left' = events_left - 1
    /\ UNCHANGED <<pc, stage, file, sinkOthers>>

\* lines 403-423: prizes_output is written only when some prize was found
SavePrizes ==
    /\ pc = "sink_loop" /\ stage = "events_data"
    /\ events_left = 0
    /\ file' = IF all_prizes # <<>> THEN [exists |-> TRUE, rows |-> all_prizes] ELSE file
    /\ pc' = "sink_returned"
    /\ UNCHANGED <<stage, events_left, last_page, last_prizes, all_prizes, sinkOthers>>

\* line 431
MainScrape ==
    /\ pc = "sink_loop" /\ stage = "main"
    /\ events_left > 0
    /\ \E ok \in BOOLEAN, page \in SamplePages :
         LET prizes == ScrapePartnersAndPrizes(TestUrl, ok, page)
         IN /\ last_page' = page
            /\ last_prizes' = prizes
            /\ all_prizes' = prizes
    /\ events_left' = events_left - 1
    /\ UNCHANGED <<pc, stage, file, sinkOthers>>

\* lines 433-444
MainSave ==
    /\ pc = "sink_loop" /\ stage = "main"
    /\ events_left = 0
    /\ file' = IF all_prizes # <<>> THEN [exists |-> TRUE, rows |-> all_prizes] ELSE file
    /\ pc' = "sink_returned"
    /\ UNCHANGED <<stage, events_left, last_page, last_prizes, all_prizes, sinkOthers>>

NextSink == ScrapeEvent \/ SavePrizes \/ MainScrape \/ MainSave

SpecSink == InitSink /\ [][NextSink]_vars

\* C3: when a prize stage has finished, its output file holds exactly the rows
\* collected in this run, whatever it held before and whatever the requests gave.
C3_SinkReplaced == pc = "sink_returned" => file.rows = all_prizes

\* what does hold: the file holds this run's rows when the run found any, and is
\* left as it was when the run found none
SinkAsCoded ==
    pc = "sink_returned" =>
        /\ all_prizes # <<>> => file = [exists |-> TRUE, rows |-> all_prizes]
        /\ all_prizes = <<>> => file \in PriorFiles

====
